---- MODULE Spec2Model ----
(***************************************************************************)
(* Model of kindling's report pipeline                                     *)
(*   Discovery -> ReportStore (file) -> MemoryCache -> API                 *)
(* (src/domain/node_service.rs, report_store.rs, node_report.rs) and of    *)
(* the identity overlay merge (src/node_identity/mod.rs).                  *)
(*                                                                         *)
(* The file system is modelled as the processes of one machine see it: a   *)
(* file is missing, holds bytes that do not parse (a torn or foreign       *)
(* file), or holds one complete JSON document.  rename(2) replaces the     *)
(* target in one step.                                                     *)
(***************************************************************************)
EXTENDS Integers, Sequences, FiniteSets, TLC

(* ------------------------------ bounds --------------------------------- *)
\* wall-clock seconds the model lets pass
MaxTime == 2
\* process crashes followed by a restart of the daemon
MaxRestarts == 1
\* width in bits of the scaled-down machine word standing for u64 / i64
WordBits == 3

\* the callers of refresh() that can be in flight together: the collection
\* spawned at startup (server.rs:70) and a refresh request of the API
\* (rest.rs:159, graphql.rs:100)
Tasks == {"initial", "request"}
Times == 0..MaxTime

(* ------------------------- Option and Result --------------------------- *)
None == [some |-> FALSE]
Some(x) == [some |-> TRUE, val |-> x]
Ok(x) == [ok |-> TRUE, val |-> x]
Err(e) == [ok |-> FALSE, err |-> e]
\* a bool handed back to a caller
Bool(b) == [bool |-> b]

(* ------------------------- report and envelope ------------------------- *)
\* f64 values of a report field (HealthMetrics.load_average_1m, like the
\* other f64 fields parsed from the text a probe printed): two finite values
\* and the non-finite ones that str::parse::<f64>() also accepts.
FiniteF64 == {"0.5", "1.5"}
NonFiniteF64 == {"NaN", "inf"}
F64 == FiniteF64 \cup NonFiniteF64

Hostnames == {"h1", "h2"}

\* NodeReport, cut down to a timestamp, one string and one f64 field.
NodeReport == [timestamp : Times, hostname : Hostnames, load : F64]

\* serde_json writes a finite f64 as its shortest decimal and a NaN or an
\* infinity as the JSON literal null.
JsonF64(x) == IF x \in NonFiniteF64 THEN "null" ELSE x

\* serde_json::to_string(&report): the JSON text of a report.
SerializeReport(report) ==
    [timestamp |-> report.timestamp,
     hostname |-> report.hostname,
     load |-> JsonF64(report.load)]

\* Sha256::digest, treated as collision-free: the digest determines the text.
Sha256(text) == [sha256 |-> text]

\* env!("CARGO_PKG_VERSION")
CollectorVersion == "0.1.0"

\* StoredReport::new(report) at wall-clock time now.
StoredReportNew(report, now) ==
    [checksum |-> Sha256(SerializeReport(report)),
     collected_at |-> now,
     collector_version |-> CollectorVersion,
     report |-> report]

\* StoredReport::verify
Verify(stored) == stored.checksum = Sha256(SerializeReport(stored.report))

\* StoredReport::age_secs at wall-clock time now (may be negative).
AgeSecs(stored, now) == now - stored.collected_at

\* `max_age_secs as i64`: the two's-complement reinterpretation of the
\* unsigned word.
AsI64(u) == IF u >= 2^(WordBits - 1) THEN u - 2^WordBits ELSE u

\* StoredReport::is_stale
StoredIsStale(stored, max_age, now) == AgeSecs(stored, now) > AsI64(max_age)

(* ------------------------------- files --------------------------------- *)
Missing == [kind |-> "missing"]
Garbage == [kind |-> "garbage"]
Doc(d) == [kind |-> "doc", doc |-> d]

\* serde_json::to_string_pretty(stored): the JSON document of an envelope.
ToStringPretty(stored) ==
    [checksum |-> stored.checksum,
     collected_at |-> stored.collected_at,
     collector_version |-> stored.collector_version,
     report |-> SerializeReport(stored.report)]

\* serde_json::from_str::<StoredReport>: null is not an f64.
FromStr(d) ==
    IF d.report.load = "null"
    THEN Err("parse")
    ELSE Ok([checksum |-> d.checksum,
             collected_at |-> d.collected_at,
             collector_version |-> d.collector_version,
             report |-> [timestamp |-> d.report.timestamp,
                         hostname |-> d.report.hostname,
                         load |-> d.report.load]])

\* ReportStore::read without the `if !stored.verify()` check
StoreRead_NoVerify(file) ==
    IF file.kind = "missing" THEN Err("io")
    ELSE IF file.kind = "garbage" THEN Err("parse")
    ELSE FromStr(file.doc)

\* ReportStore::read on a target file holding `file`.
StoreRead(file) ==
    IF file.kind = "missing" THEN Err("io")
    ELSE IF file.kind = "garbage" THEN Err("parse")
    ELSE LET parsed == FromStr(file.doc) IN
         IF ~parsed.ok THEN Err("parse")
         ELSE IF ~Verify(parsed.val) THEN Err("checksum")
         ELSE parsed

\* ReportStore::exists
StoreExists(file) == file.kind # "missing"

(* ----------------------- what a previous run left ---------------------- *)
OldReport == [timestamp |-> 0, hostname |-> "h1", load |-> "0.5"]
OldStored == StoredReportNew(OldReport, 0)
\* a complete, verifying document
ValidDoc == ToStringPretty(OldStored)
\* the same document with one report field edited and the checksum kept
TamperedDoc == [ValidDoc EXCEPT !.report.hostname = "h2"]
InitTargets == {Missing, Garbage, Doc(ValidDoc), Doc(TamperedDoc)}

(* ------------------------- serde_yaml::Value --------------------------- *)
\* the tagged variant Null | scalar | Sequence | Mapping; a mapping is a
\* function from its keys to values.
Null == [k |-> "null"]
Scalar(x) == [k |-> "scalar", v |-> x]
Sequence(s) == [k |-> "seq", v |-> s]
Mapping(f) == [k |-> "map", v |-> f]

RECURSIVE deep_merge(_, _)
\* deep_merge building the result from the overlay's keys only
deep_merge_overlay_keys_only(b, o) ==
    IF b.k = "map" /\ o.k = "map"
    THEN Mapping([key \in DOMAIN o.v |->
             IF key \in DOMAIN b.v
             THEN deep_merge(b.v[key], o.v[key])
             ELSE o.v[key]])
    ELSE IF o.k = "null" THEN b
    ELSE o

\* deep_merge(&mut base, overlay): the value of *base afterwards.
deep_merge(b, o) ==
    IF b.k = "map" /\ o.k = "map"
    THEN Mapping([key \in DOMAIN b.v \cup DOMAIN o.v |->
             IF key \in DOMAIN o.v
             THEN IF key \in DOMAIN b.v
                  THEN deep_merge(b.v[key], o.v[key])
                  ELSE o.v[key]
             ELSE b.v[key]])
    ELSE IF o.k = "null" THEN b
    ELSE o

RECURSIVE remove_field_recursive(_, _)
\* remove_field_recursive(&mut val, parts): the value of *val afterwards.
remove_field_recursive(val, parts) ==
    IF parts = <<>> THEN val
    ELSE IF val.k = "map"
    THEN IF Len(parts) = 1
         THEN Mapping([key \in DOMAIN val.v \ {parts[1]} |-> val.v[key]])
         ELSE IF parts[1] \in DOMAIN val.v
         THEN Mapping([val.v EXCEPT ![parts[1]] =
                          remove_field_recursive(@, Tail(parts))])
         ELSE val
    ELSE val

\* remove_field_path(&mut val, path); a path is held as the segments that
\* path.split('.') yields.
remove_field_path(val, path) == remove_field_recursive(val, path)

(* ---------------------------- NodeIdentity ----------------------------- *)
\* NodeIdentity, cut down to the required `hostname` and the defaulted
\* `secrets` section with `provider` and `age_keys`.
\* default_secrets_provider()
DefaultProvider == "sops"
DefaultSecrets == [provider |-> DefaultProvider, age_keys |-> <<>>]

\* serde_yaml::to_value(&identity): every field is written.
ToValue(id) ==
    Mapping([hostname |-> Scalar(id.hostname),
             secrets |-> Mapping([provider |-> Scalar(id.secrets.provider),
                                  age_keys |-> Sequence(id.secrets.age_keys)])])

\* serde_yaml::from_value::<SecretsConfig>
SecretsFromValue(v) ==
    IF v.k # "map" THEN Err("decode")
    ELSE IF "provider" \in DOMAIN v.v /\ v.v["provider"].k # "scalar"
    THEN Err("decode")
    ELSE IF "age_keys" \in DOMAIN v.v /\ v.v["age_keys"].k # "seq"
    THEN Err("decode")
    ELSE Ok([provider |-> IF "provider" \in DOMAIN v.v
                          THEN v.v["provider"].v ELSE DefaultProvider,
             age_keys |-> IF "age_keys" \in DOMAIN v.v
                          THEN v.v["age_keys"].v ELSE <<>>])

\* serde_yaml::from_value::<NodeIdentity>: `hostname` has no default, a
\* missing `secrets` takes SecretsConfig::default().
FromValue(v) ==
    IF v.k # "map" THEN Err("decode")
    ELSE IF "hostname" \notin DOMAIN v.v THEN Err("decode")
    ELSE IF v.v["hostname"].k # "scalar" THEN Err("decode")
    ELSE LET s == IF "secrets" \in DOMAIN v.v
                  THEN SecretsFromValue(v.v["secrets"])
                  ELSE Ok(DefaultSecrets)
         IN IF ~s.ok THEN Err("decode")
            ELSE Ok([hostname |-> v.v["hostname"].v, secrets |-> s.val])

RECURSIVE RemoveFields(_, _)
\* `for field_path in private_fields { remove_field_path(&mut val, ..) }`
RemoveFields(val, fields) ==
    IF fields = <<>> THEN val
    ELSE RemoveFields(remove_field_path(val, Head(fields)), Tail(fields))

\* NodeIdentity::redact
Redact(id, fields) == FromValue(RemoveFields(ToValue(id), fields))

\* the identity NodeService::new loaded, when node.yaml exists
LoadedIdentity ==
    [hostname |-> "h1", secrets |-> [provider |-> "sops", age_keys |-> <<"k1">>]]
\* IdentityConfig.private_fields of the running daemon
ConfiguredPrivateFields == << <<"secrets", "age_keys">> >>

(* ------------------------------- state --------------------------------- *)
VARIABLES
    target,         \* content of the file at ReportStore.path
    tmp,            \* content of the file path.with_extension("json.tmp")
    write_lock,     \* ReportStore.write_lock: the holder, "free" when free
    cache,          \* NodeService.cache: Option<StoredReport>
    identity,       \* NodeService.identity: Option<NodeIdentity>
    mainpc,         \* position of server::run: "exists", "read", "serving"
    pc,             \* position of each refresh() call
    stored,         \* the local `stored` of each refresh() call
    result,         \* what each refresh() call returned, None while running
    now,            \* the wall clock, in seconds
    max_age_secs,   \* ReportConfig.max_age_secs
    private_fields, \* IdentityConfig.private_fields
    collects,       \* ReportCollector::collect() invocations of this process
    restarts,       \* crash-and-restart events so far
    ret,            \* what the last read accessor call returned
    readFile,       \* the target content the last ReportStore::read saw
    readRes,        \* what the last ReportStore::read returned
    readAfter,      \* the envelope of the last completed write() before it
    lastWrite,      \* the envelope of the last completed write(), if any
    committed,      \* every document the target file has held so far
    base,           \* deep_merge: the tree merged into, before the call
    overlay,        \* deep_merge: the overlay argument
    merged,         \* deep_merge: the tree merged into, after the call
    report,         \* StoredReport::new: the report wrapped
    envelope,       \* StoredReport::new: the envelope made of it
    copy,           \* a copy of the envelope with an edited report
    base_file,      \* content of the file at NodeIdentity::default_path()
    overlay_files,  \* the entries of the overlay directories, by path
    loaded,         \* what the last load_with_overlays call returned
    redacted,       \* what the last NodeIdentity::redact call returned
    probes,         \* ReportCollector::collect: what each probe returned
    collected,      \* ReportCollector::collect: what the call returned
    synced          \* the files whose content is on durable storage

storeVars == <<target, tmp, write_lock>>
slotVars == <<cache, identity>>
taskVars == <<pc, stored, result>>
envVars == <<now, max_age_secs, private_fields, restarts>>
readVars == <<readFile, readRes, readAfter>>
histVars == <<lastWrite, committed>>
mergeVars == <<base, overlay, merged>>
wrapVars == <<report, envelope, copy>>
loadVars == <<base_file, overlay_files, loaded>>
redactVars == <<redacted>>
collectVars == <<probes, collected>>
powerVars == <<synced>>
pureVars == <<mergeVars, wrapVars, loadVars, redactVars, collectVars,
              powerVars>>

vars == <<storeVars, slotVars, mainpc, taskVars, envVars, collects, ret,
          readVars, histVars, pureVars>>

\* gethostname()
Hostname == "h1"
\* what the health probe can report for the f64 field
ProbeLoads == {"0.5", "NaN"}
\* the wall-clock second at which the daemon runs
StartTime == 1
\* ReportConfig.max_age_secs of the running daemon
ConfiguredMaxAge == 1

NoRet == [op |-> "none"]
NoStored == [checksum |-> Sha256("none")]

\* no deep_merge call is part of this specification
NoMerge == base = Null /\ overlay = Null /\ merged = None
\* no stand-alone StoredReport::new call is part of this specification
NoWrap == report = OldReport /\ envelope = None /\ copy = None

\* no identity file is part of this specification
NoLoad == base_file = Missing /\ overlay_files = <<>> /\ loaded = None
\* no stand-alone NodeIdentity::redact call is part of this specification
NoRedact == redacted = None
\* no stand-alone ReportCollector::collect call is part of this specification
NoCollect == probes = <<>> /\ collected = None
\* durable storage is not tracked in this specification
NoPower == synced = {}

\* the process right after NodeService::new: the identity slot as loaded,
\* the cache empty, no refresh() in flight.
Constructed ==
    /\ write_lock = "free"
    /\ cache = None
    /\ mainpc = "exists"
    /\ pc = [t \in Tasks |-> "idle"]
    /\ stored = [t \in Tasks |-> NoStored]
    /\ result = [t \in Tasks |-> None]
    /\ collects = 0

Init ==
    /\ NoCollect
    /\ NoPower
    /\ Constructed
    /\ target \in InitTargets
    /\ tmp = Missing
    /\ identity \in {None, Some(LoadedIdentity)}
    /\ now = StartTime
    /\ max_age_secs = ConfiguredMaxAge
    /\ private_fields = ConfiguredPrivateFields
    /\ restarts = 0
    /\ ret = NoRet
    /\ readFile = Missing
    /\ readRes = None
    /\ readAfter = None
    /\ lastWrite = None
    /\ committed = IF target.kind = "doc" THEN {target.doc} ELSE {}
    /\ NoMerge
    /\ NoWrap
    /\ NoLoad
    /\ NoRedact

(* --------------------- NodeService::load_from_disk --------------------- *)
\* `if !self.store.exists() { return; }`
LoadFromDiskExists ==
    /\ mainpc = "exists"
    /\ mainpc' = IF StoreExists(target) THEN "read" ELSE "serving"
    /\ UNCHANGED <<storeVars, slotVars, taskVars, envVars, collects, ret,
                   readVars, histVars, pureVars>>

\* load_from_disk caching whatever deserializes, verified or not
LoadFromDiskRead_Unverified ==
    /\ mainpc = "read"
    /\ readFile' = target
    /\ readRes' = Some(StoreRead(target))
    /\ readAfter' = lastWrite
    /\ cache' = IF target.kind = "doc" /\ FromStr(target.doc).ok
                THEN Some(FromStr(target.doc).val)
                ELSE cache
    /\ mainpc' = "serving"
    /\ UNCHANGED <<storeVars, identity, taskVars, envVars, collects, ret,
                   histVars, pureVars>>

\* `match self.store.read().await`: Ok caches the envelope, Err only logs.
LoadFromDiskRead ==
    /\ mainpc = "read"
    /\ readFile' = target
    /\ readRes' = Some(StoreRead(target))
    /\ readAfter' = lastWrite
    /\ cache' = IF StoreRead(target).ok THEN Some(StoreRead(target).val)
                ELSE cache
    /\ mainpc' = "serving"
    /\ UNCHANGED <<storeVars, identity, taskVars, envVars, collects, ret,
                   histVars, pureVars>>

(* ------------------------ NodeService::refresh ------------------------- *)
\* a caller enters refresh() once the server is up
RefreshCall(t) ==
    /\ mainpc = "serving"
    /\ pc[t] = "idle"
    /\ pc' = [pc EXCEPT ![t] = "collect"]
    /\ UNCHANGED <<storeVars, slotVars, mainpc, stored, result, envVars,
                   collects, ret, readVars, histVars, pureVars>>

\* refresh() updating the cache before the envelope is written
RefreshCollect_CachesBeforeWrite(t) ==
    /\ pc[t] = "collect"
    /\ \E load \in ProbeLoads :
         stored' = [stored EXCEPT ![t] =
             StoredReportNew([timestamp |-> now, hostname |-> Hostname,
                              load |-> load], now)]
    /\ cache' = Some(stored'[t])
    /\ collects' = collects + 1
    /\ pc' = [pc EXCEPT ![t] = "lock"]
    /\ UNCHANGED <<storeVars, identity, mainpc, result, envVars, ret,
                   readVars, histVars, pureVars>>

\* `ReportCollector::collect().await?` returns Ok always, then
\* `StoredReport::new(report)` stamps the envelope.
RefreshCollect(t) ==
    /\ pc[t] = "collect"
    /\ \E load \in ProbeLoads :
         stored' = [stored EXCEPT ![t] =
             StoredReportNew([timestamp |-> now, hostname |-> Hostname,
                              load |-> load], now)]
    /\ collects' = collects + 1
    /\ pc' = [pc EXCEPT ![t] = "lock"]
    /\ UNCHANGED <<storeVars, slotVars, mainpc, result, envVars, ret,
                   readVars, histVars, pureVars>>

\* refresh() caching the envelope although write() failed
WriteFailed_CacheUpdated(t, e) ==
    /\ pc' = [pc EXCEPT ![t] = "done"]
    /\ result' = [result EXCEPT ![t] = Some(Err(e))]
    /\ write_lock' = "free"
    /\ cache' = Some(stored[t])
    /\ UNCHANGED <<target, tmp, identity, mainpc, stored, envVars,
                   collects, ret, readVars, histVars, pureVars>>

\* refresh() emptying the cache when write() fails
WriteFailed_CacheCleared(t, e) ==
    /\ pc' = [pc EXCEPT ![t] = "done"]
    /\ result' = [result EXCEPT ![t] = Some(Err(e))]
    /\ write_lock' = "free"
    /\ cache' = None
    /\ UNCHANGED <<target, tmp, identity, mainpc, stored, envVars,
                   collects, ret, readVars, histVars, pureVars>>

\* an error return of ReportStore::write: the guard is dropped and `?`
\* propagates the error out of refresh(); the cache is not touched.
WriteFailed(t, e) ==
    /\ pc' = [pc EXCEPT ![t] = "done"]
    /\ result' = [result EXCEPT ![t] = Some(Err(e))]
    /\ write_lock' = "free"
    /\ UNCHANGED <<target, tmp, slotVars, mainpc, stored, envVars,
                   collects, ret, readVars, histVars, pureVars>>

\* write() going on without waiting for the holder of the lock
WriteLock_NoExclusion(t) ==
    /\ pc[t] = "lock"
    /\ \/ /\ write_lock' = t
          /\ pc' = [pc EXCEPT ![t] = "tmp_open"]
          /\ UNCHANGED <<target, tmp, slotVars, mainpc, stored, result,
                         envVars, collects, ret, readVars, histVars,
                         pureVars>>
       \/ WriteFailed(t, "mkdir")

\* `let _guard = self.write_lock.lock().await;`, the serialization, and
\* `tokio::fs::create_dir_all(parent).await?`
WriteLock(t) ==
    /\ pc[t] = "lock"
    /\ write_lock = "free"
    /\ \/ /\ write_lock' = t
          /\ pc' = [pc EXCEPT ![t] = "tmp_open"]
          /\ UNCHANGED <<target, tmp, slotVars, mainpc, stored, result,
                         envVars, collects, ret, readVars, histVars,
                         pureVars>>
       \/ WriteFailed(t, "mkdir")

\* write() opening the target itself instead of the temp sibling
WriteTmpOpen_InPlace(t) ==
    /\ pc[t] = "tmp_open"
    /\ \/ /\ target' = Garbage
          /\ pc' = [pc EXCEPT ![t] = "tmp_write"]
          /\ UNCHANGED <<tmp, write_lock, slotVars, mainpc, stored,
                         result, envVars, collects, ret, readVars,
                         histVars, pureVars>>
       \/ WriteFailed(t, "tmp")

\* `tokio::fs::write(&tmp_path, &content)`, first half: the file is created
\* or truncated; an error here leaves the temp path as it was.
WriteTmpOpen(t) ==
    /\ pc[t] = "tmp_open"
    /\ \/ /\ tmp' = Garbage
          /\ pc' = [pc EXCEPT ![t] = "tmp_write"]
          /\ UNCHANGED <<target, write_lock, slotVars, mainpc, stored,
                         result, envVars, collects, ret, readVars,
                         histVars, pureVars>>
       \/ WriteFailed(t, "tmp")

\* `tokio::fs::write(&tmp_path, &content)`, second half: all bytes are
\* written; an error here (disk full) leaves the torn temp file behind.
WriteTmpWriteAll(t) ==
    /\ pc[t] = "tmp_write"
    /\ \/ /\ tmp' = Doc(ToStringPretty(stored[t]))
          /\ pc' = [pc EXCEPT ![t] = "rename"]
          /\ UNCHANGED <<target, write_lock, slotVars, mainpc, stored,
                         result, envVars, collects, ret, readVars,
                         histVars, pureVars>>
       \/ WriteFailed(t, "tmp")

\* write() returning with its guard still held, so that the cache is
\* replaced under the store's lock
WriteRename_KeepsLock(t) ==
    /\ pc[t] = "rename"
    /\ \/ /\ tmp.kind # "missing"
          /\ target' = tmp
          /\ tmp' = Missing
          /\ lastWrite' = Some(stored[t])
          /\ committed' = IF tmp.kind = "doc"
                          THEN committed \cup {tmp.doc} ELSE committed
          /\ pc' = [pc EXCEPT ![t] = "cache"]
          /\ UNCHANGED <<write_lock, slotVars, mainpc, stored, result,
                         envVars, collects, ret, readVars, pureVars>>
       \/ WriteFailed(t, "rename")

\* `tokio::fs::rename(&tmp_path, &self.path).await?` and the return of
\* write(): the temp file replaces the target in one step.
WriteRename(t) ==
    /\ pc[t] = "rename"
    /\ \/ /\ tmp.kind # "missing"
          /\ target' = tmp
          /\ tmp' = Missing
          /\ write_lock' = "free"
          /\ lastWrite' = Some(stored[t])
          /\ committed' = IF tmp.kind = "doc"
                          THEN committed \cup {tmp.doc} ELSE committed
          /\ pc' = [pc EXCEPT ![t] = "cache"]
          /\ UNCHANGED <<slotVars, mainpc, stored, result, envVars,
                         collects, ret, readVars, pureVars>>
       \/ WriteFailed(t, "rename")

\* refresh() overwriting the report of the cached envelope in place and
\* leaving its other fields as they were
RefreshCache_FieldByField(t) ==
    /\ pc[t] = "cache"
    /\ cache' = IF cache.some
                THEN Some([cache.val EXCEPT !.report = stored[t].report])
                ELSE Some(stored[t])
    /\ result' = [result EXCEPT ![t] = Some(Ok(stored[t]))]
    /\ pc' = [pc EXCEPT ![t] = "done"]
    /\ UNCHANGED <<storeVars, identity, mainpc, stored, envVars, collects,
                   ret, readVars, histVars, pureVars>>

\* `*self.cache.write().await = Some(stored.clone()); Ok(stored)`
RefreshCache(t) ==
    /\ pc[t] = "cache"
    /\ cache' = Some(stored[t])
    /\ result' = [result EXCEPT ![t] = Some(Ok(stored[t]))]
    /\ pc' = [pc EXCEPT ![t] = "done"]
    /\ UNCHANGED <<storeVars, identity, mainpc, stored, envVars, collects,
                   ret, readVars, histVars, pureVars>>

(* --------------------------- read accessors ---------------------------- *)
\* cached_report() collecting on its own when the cache is empty
CachedReport_CollectsWhenEmpty ==
    /\ mainpc = "serving"
    /\ cache' = IF cache.some THEN cache
                ELSE Some(StoredReportNew([timestamp |-> now,
                                           hostname |-> Hostname,
                                           load |-> "0.5"], now))
    /\ collects' = IF cache.some THEN collects ELSE collects + 1
    /\ ret' = [op |-> "cached_report", val |-> cache']
    /\ UNCHANGED <<storeVars, identity, mainpc, taskVars, envVars,
                   readVars, histVars, pureVars>>

\* a refresh() call that is collecting or inside ReportStore::write
RefreshInProgress(t) ==
    pc[t] \in {"collect", "lock", "tmp_open", "tmp_write", "rename"}

\* cached_report() waiting until no refresh() is collecting or writing, as
\* it would if refresh() held the cache's write lock from its first line
CachedReport_WaitsForRefresh ==
    /\ mainpc = "serving"
    /\ \A t \in Tasks : ~RefreshInProgress(t)
    /\ ret' = [op |-> "cached_report", val |-> cache]
    /\ UNCHANGED <<storeVars, slotVars, mainpc, taskVars, envVars, collects,
                   readVars, histVars, pureVars>>

\* NodeService::cached_report
CachedReport ==
    /\ mainpc = "serving"
    /\ ret' = [op |-> "cached_report", val |-> cache]
    /\ UNCHANGED <<storeVars, slotVars, mainpc, taskVars, envVars, collects,
                   readVars, histVars, pureVars>>

\* NodeService::is_stale
IsStale ==
    /\ mainpc = "serving"
    /\ ret' = [op |-> "is_stale",
               val |-> Bool(IF cache.some
                            THEN StoredIsStale(cache.val, max_age_secs, now)
                            ELSE TRUE)]
    /\ UNCHANGED <<storeVars, slotVars, mainpc, taskVars, envVars, collects,
                   readVars, histVars, pureVars>>

\* NodeService::identity
Identity ==
    /\ mainpc = "serving"
    /\ ret' = [op |-> "identity", val |-> identity]
    /\ UNCHANGED <<storeVars, slotVars, mainpc, taskVars, envVars, collects,
                   readVars, histVars, pureVars>>

\* NodeService::redacted_identity: a failed redaction returns the identity
\* in full.
RedactedIdentity ==
    /\ mainpc = "serving"
    /\ ret' = [op |-> "redacted_identity",
               val |-> IF ~identity.some THEN None
                       ELSE IF Redact(identity.val, private_fields).ok
                       THEN Some(Redact(identity.val, private_fields).val)
                       ELSE identity]
    /\ UNCHANGED <<storeVars, slotVars, mainpc, taskVars, envVars, collects,
                   readVars, histVars, pureVars>>

(* --------------------------- `report --cached` ------------------------- *)
\* commands/report.rs: a ReportStore on the same cache file, `store.read()`
\* and nothing else.
ReportCached ==
    /\ readFile' = target
    /\ readRes' = Some(StoreRead(target))
    /\ readAfter' = lastWrite
    /\ UNCHANGED <<storeVars, slotVars, mainpc, taskVars, envVars, collects,
                   ret, histVars, pureVars>>

(* ----------------------------- environment ----------------------------- *)
\* the daemon process is killed at any point and started again: memory is
\* lost (cache, lock, calls in flight), the files stay as they are, and
\* server::run begins again with NodeService::new and load_from_disk.
CrashRestart ==
    /\ restarts < MaxRestarts
    /\ restarts' = restarts + 1
    /\ write_lock' = "free"
    /\ cache' = None
    /\ mainpc' = "exists"
    /\ pc' = [t \in Tasks |-> "idle"]
    /\ stored' = [t \in Tasks |-> NoStored]
    /\ result' = [t \in Tasks |-> None]
    /\ collects' = 0
    /\ UNCHANGED <<target, tmp, identity, now, max_age_secs, private_fields,
                   ret, readVars, histVars, pureVars>>

Next ==
    \/ LoadFromDiskExists
    \/ LoadFromDiskRead
    \/ \E t \in Tasks : RefreshCall(t)
    \/ \E t \in Tasks : RefreshCollect(t)
    \/ \E t \in Tasks : WriteLock(t)
    \/ \E t \in Tasks : WriteTmpOpen(t)
    \/ \E t \in Tasks : WriteTmpWriteAll(t)
    \/ \E t \in Tasks : WriteRename(t)
    \/ \E t \in Tasks : RefreshCache(t)
    \/ CachedReport
    \/ IsStale
    \/ Identity
    \/ RedactedIdentity
    \/ ReportCached
    \/ CrashRestart

Spec == Init /\ [][Next]_vars

(* ------------------- staleness over the whole word --------------------- *)
Words == 0..(2^WordBits - 1)

\* a second of wall-clock time passes
Tick ==
    /\ now < MaxTime
    /\ now' = now + 1
    /\ UNCHANGED <<storeVars, slotVars, mainpc, taskVars, max_age_secs,
                   private_fields, restarts, collects, ret, readVars,
                   histVars, pureVars>>

\* the daemon starts at any second, with any max_age_secs a u64 holds, on a
\* report file collected at any second (before or after the current one).
InitStale ==
    /\ NoCollect
    /\ NoPower
    /\ Constructed
    /\ target \in {Missing} \cup
           {Doc(ToStringPretty(StoredReportNew(OldReport, c))) : c \in Times}
    /\ tmp = Missing
    /\ identity = None
    /\ now \in Times
    /\ max_age_secs \in Words
    /\ private_fields = ConfiguredPrivateFields
    /\ restarts = 0
    /\ ret = NoRet
    /\ readFile = Missing
    /\ readRes = None
    /\ readAfter = None
    /\ lastWrite = None
    /\ committed = IF target.kind = "doc" THEN {target.doc} ELSE {}
    /\ NoMerge
    /\ NoWrap
    /\ NoLoad
    /\ NoRedact

NextStale ==
    \/ LoadFromDiskExists
    \/ LoadFromDiskRead
    \/ IsStale
    \/ Tick

SpecStale == InitStale /\ [][NextStale]_vars

(* --------------------------- deep_merge alone -------------------------- *)
InnerKeys == {"b", "c"}
OuterKeys == {"a"}
BaseLeaves == {Null, Scalar("1"), Scalar("3"), Sequence(<<"9">>)}
OverlayLeaves == {Null, Scalar("2"), Sequence(<<"1", "2">>)}

\* the mappings with keys among K and values in S
MappingsOver(K, S) == {Mapping(f) : f \in UNION {[D -> S] : D \in SUBSET K}}
\* trees of depth at most two over the given leaves
Trees(leaves) ==
    LET inner == leaves \cup MappingsOver(InnerKeys, leaves)
    IN inner \cup MappingsOver(OuterKeys, inner)

InitMerge ==
    /\ NoCollect
    /\ NoPower
    /\ Constructed
    /\ target = Missing
    /\ tmp = Missing
    /\ identity = None
    /\ now = StartTime
    /\ max_age_secs = ConfiguredMaxAge
    /\ private_fields = ConfiguredPrivateFields
    /\ restarts = 0
    /\ ret = NoRet
    /\ readFile = Missing
    /\ readRes = None
    /\ readAfter = None
    /\ lastWrite = None
    /\ committed = {}
    /\ base \in Trees(BaseLeaves)
    /\ overlay \in Trees(OverlayLeaves)
    /\ merged = None
    /\ NoWrap
    /\ NoLoad
    /\ NoRedact

\* one call deep_merge(&mut base, overlay)
DeepMergeCall ==
    /\ merged = None
    /\ merged' = Some(deep_merge(base, overlay))
    /\ UNCHANGED <<storeVars, slotVars, mainpc, taskVars, envVars, collects,
                   ret, readVars, histVars, base, overlay, wrapVars,
                   loadVars, redactVars,
                   collectVars, powerVars>>

NextMerge == DeepMergeCall

SpecMerge == InitMerge /\ [][NextMerge]_vars

(* ----------------------- StoredReport::new alone ----------------------- *)
InitVerify ==
    /\ NoCollect
    /\ NoPower
    /\ Constructed
    /\ target = Missing
    /\ tmp = Missing
    /\ identity = None
    /\ now = StartTime
    /\ max_age_secs = ConfiguredMaxAge
    /\ private_fields = ConfiguredPrivateFields
    /\ restarts = 0
    /\ ret = NoRet
    /\ readFile = Missing
    /\ readRes = None
    /\ readAfter = None
    /\ lastWrite = None
    /\ committed = {}
    /\ NoMerge
    /\ report \in NodeReport
    /\ envelope = None
    /\ copy = None
    /\ NoLoad
    /\ NoRedact

\* `StoredReport::new(report)`
StoredReportNewCall ==
    /\ envelope = None
    /\ envelope' = Some(StoredReportNew(report, now))
    /\ UNCHANGED <<storeVars, slotVars, mainpc, taskVars, envVars, collects,
                   ret, readVars, histVars, mergeVars, report, copy,
                   loadVars, redactVars,
                   collectVars, powerVars>>

\* a holder of the envelope edits a field of its public `report` and keeps
\* the checksum
EditReport ==
    /\ envelope.some
    /\ copy = None
    /\ \E r \in NodeReport :
         /\ r # envelope.val.report
         /\ copy' = Some([envelope.val EXCEPT !.report = r])
    /\ UNCHANGED <<storeVars, slotVars, mainpc, taskVars, envVars, collects,
                   ret, readVars, histVars, mergeVars, report, envelope,
                   loadVars, redactVars,
                   collectVars, powerVars>>

NextVerify ==
    \/ StoredReportNewCall
    \/ EditReport

SpecVerify == InitVerify /\ [][NextVerify]_vars

(* ------------------ NodeIdentity::load_with_overlays ------------------- *)
\* most overlay entries the directories hold together
MaxOverlays == 3

\* the overlay directories (the default one and one of
\* IdentityConfig.overlay_dirs) and the file stems, each named by its rank
\* in the order of PathBuf's Ord: 0 is "00-z", 1 is "01-x", 2 is "02-y"
OverlayDirs == {1, 2}
FileStems == {0, 1, 2}
OverlayPaths == [dir : OverlayDirs, stem : FileStems]

\* a file that exists and cannot be read
Unreadable == [kind |-> "unreadable"]

\* the trees overlay files hold: two that set `hostname`, one that gives it
\* a sequence where the schema has a string, one with a key the schema does
\* not have
OverlayTrees ==
    {Mapping([hostname |-> Scalar("hx")]),
     Mapping([hostname |-> Scalar("hy")]),
     Mapping([hostname |-> Sequence(<<"hx">>)]),
     Mapping([extra |-> Scalar("x")])}

\* a directory entry: its extension and its content
OverlayEntries ==
    {[ext |-> "yaml", file |-> f] :
         f \in {Unreadable, Garbage} \cup {Doc(t) : t \in OverlayTrees}}
    \cup {[ext |-> "bak", file |-> Doc(Mapping([hostname |-> Scalar("hy")]))]}

\* the trees node.yaml holds: a complete identity, and one without the
\* required `hostname`
BaseTrees ==
    {Mapping([hostname |-> Scalar("h1"),
              secrets |-> Mapping([provider |-> Scalar("sops"),
                                   age_keys |-> Sequence(<<"k1">>)])]),
     Mapping([secrets |-> Mapping([provider |-> Scalar("sops")])])}
BaseFiles == {Missing, Garbage} \cup {Doc(t) : t \in BaseTrees}

\* Ord of PathBuf: component by component, the directory first
PathLess(p, q) == p.dir < q.dir \/ (p.dir = q.dir /\ p.stem < q.stem)

RECURSIVE SortPaths(_)
\* `overlay_files.sort()`
SortPaths(S) ==
    IF S = {} THEN <<>>
    ELSE LET p == CHOOSE x \in S : \A y \in S \ {x} : PathLess(x, y)
         IN <<p>> \o SortPaths(S \ {p})

\* the read_dir loop: the entries whose extension is yaml or yml
CollectOverlayFiles(files) ==
    {p \in DOMAIN files : files[p].ext \in {"yaml", "yml"}}

RECURSIVE ApplyOverlays(_, _, _)
\* the overlay loop giving up at the first file it cannot read or parse
ApplyOverlays_StopAtMalformed(tree, paths, files) ==
    IF paths = <<>> THEN tree
    ELSE LET f == files[Head(paths)].file
         IN IF f.kind = "doc"
            THEN ApplyOverlays(deep_merge(tree, f.doc), Tail(paths), files)
            ELSE tree

\* `for overlay_path in &overlay_files`: a file that reads and parses is
\* merged, any other is skipped with a warning.
ApplyOverlays(tree, paths, files) ==
    IF paths = <<>> THEN tree
    ELSE LET f == files[Head(paths)].file
         IN ApplyOverlays(IF f.kind = "doc" THEN deep_merge(tree, f.doc)
                          ELSE tree,
                          Tail(paths), files)

\* load_with_overlays starting from an empty mapping when the base file
\* does not read or parse
load_with_overlays_EmptyBase(bfile, files) ==
    FromValue(ApplyOverlays(IF bfile.kind = "doc" THEN bfile.doc
                            ELSE Mapping(<<>>),
                            SortPaths(CollectOverlayFiles(files)), files))

\* NodeIdentity::load_with_overlays(base_path, extra_overlay_dirs)
load_with_overlays(bfile, files) ==
    IF bfile.kind \in {"missing", "unreadable"} THEN Err("read")
    ELSE IF bfile.kind = "garbage" THEN Err("parse")
    ELSE FromValue(ApplyOverlays(bfile.doc,
                                 SortPaths(CollectOverlayFiles(files)),
                                 files))

\* the daemon serves with the identity NodeService::new gave it, while the
\* identity files are whatever they have become since.
InitLoad ==
    /\ NoCollect
    /\ NoPower
    /\ write_lock = "free"
    /\ cache = None
    /\ mainpc = "serving"
    /\ pc = [t \in Tasks |-> "idle"]
    /\ stored = [t \in Tasks |-> NoStored]
    /\ result = [t \in Tasks |-> None]
    /\ collects = 0
    /\ target = Missing
    /\ tmp = Missing
    /\ identity \in {None, Some(LoadedIdentity)}
    /\ now = StartTime
    /\ max_age_secs = ConfiguredMaxAge
    /\ private_fields = ConfiguredPrivateFields
    /\ restarts = 0
    /\ ret = NoRet
    /\ readFile = Missing
    /\ readRes = None
    /\ readAfter = None
    /\ lastWrite = None
    /\ committed = {}
    /\ NoMerge
    /\ NoWrap
    /\ base_file \in BaseFiles
    /\ \E D \in SUBSET OverlayPaths :
         /\ Cardinality(D) <= MaxOverlays
         /\ overlay_files \in [D -> OverlayEntries]
    /\ loaded = None
    /\ NoRedact

\* reload_identity() emptying the slot when the load fails
ReloadIdentity_ClearsOnError ==
    /\ mainpc = "serving"
    /\ loaded = None
    /\ LET r == load_with_overlays(base_file, overlay_files)
       IN /\ loaded' = Some(r)
          /\ identity' = IF r.ok THEN Some(r.val) ELSE None
          /\ ret' = [op |-> "reload_identity",
                     val |-> IF r.ok THEN Ok("unit") ELSE r]
    /\ UNCHANGED <<storeVars, cache, mainpc, taskVars, envVars, collects,
                   readVars, histVars, mergeVars, wrapVars, base_file,
                   overlay_files, redactVars,
                   collectVars, powerVars>>

\* NodeService::reload_identity: `?` returns the load error before the slot
\* is written; on success the slot is assigned once, under its write lock.
ReloadIdentity ==
    /\ mainpc = "serving"
    /\ loaded = None
    /\ LET r == load_with_overlays(base_file, overlay_files)
       IN /\ loaded' = Some(r)
          /\ identity' = IF r.ok THEN Some(r.val) ELSE identity
          /\ ret' = [op |-> "reload_identity",
                     val |-> IF r.ok THEN Ok("unit") ELSE r]
    /\ UNCHANGED <<storeVars, cache, mainpc, taskVars, envVars, collects,
                   readVars, histVars, mergeVars, wrapVars, base_file,
                   overlay_files, redactVars,
                   collectVars, powerVars>>

NextLoad ==
    \/ ReloadIdentity
    \/ Identity

SpecLoad == InitLoad /\ [][NextLoad]_vars

(* ------------------------ NodeIdentity::redact ------------------------- *)
\* most paths IdentityConfig.private_fields lists
MaxPrivate == 2

\* the identities a load can give
Identities ==
    [hostname : {"h1", "h2"},
     secrets : [provider : {"sops", "akeyless"},
                age_keys : {<<>>, <<"k1">>, <<"k2">>}]]

\* dot-separated paths as their segments: schema fields, a whole section, a
\* key that does not exist, and paths through a scalar and through a sequence
FieldPaths ==
    {<<"secrets", "age_keys">>, <<"secrets", "provider">>, <<"hostname">>,
     <<"secrets">>, <<"nope">>, <<"secrets", "nope">>,
     <<"hostname", "x">>, <<"secrets", "age_keys", "0">>}

PrivateFieldLists == UNION {[1..n -> FieldPaths] : n \in 0..MaxPrivate}

\* the daemon serves with any identity loaded and any private_fields
\* configured.
InitRedact ==
    /\ NoCollect
    /\ NoPower
    /\ write_lock = "free"
    /\ cache = None
    /\ mainpc = "serving"
    /\ pc = [t \in Tasks |-> "idle"]
    /\ stored = [t \in Tasks |-> NoStored]
    /\ result = [t \in Tasks |-> None]
    /\ collects = 0
    /\ target = Missing
    /\ tmp = Missing
    /\ identity \in {None} \cup {Some(id) : id \in Identities}
    /\ now = StartTime
    /\ max_age_secs = ConfiguredMaxAge
    /\ private_fields \in PrivateFieldLists
    /\ restarts = 0
    /\ ret = NoRet
    /\ readFile = Missing
    /\ readRes = None
    /\ readAfter = None
    /\ lastWrite = None
    /\ committed = {}
    /\ NoMerge
    /\ NoWrap
    /\ NoLoad
    /\ redacted = None

\* one call identity.redact(&private_fields)
RedactCall ==
    /\ identity.some
    /\ redacted = None
    /\ redacted' = Some(Redact(identity.val, private_fields))
    /\ UNCHANGED <<storeVars, slotVars, mainpc, taskVars, envVars, collects,
                   ret, readVars, histVars, mergeVars, wrapVars, loadVars,
                   collectVars, powerVars>>

NextRedact ==
    \/ RedactCall
    \/ RedactedIdentity
    \/ Identity

SpecRedact == InitRedact /\ [][NextRedact]_vars

(* ============================== properties ============================= *)

\* the document is complete and its checksum is the digest of its report
DocVerifies(d) == d.checksum = Sha256(d.report)
\* the document deserializes into a StoredReport
DocParses(d) == d.report.load # "null"

\* C1: every envelope in the cache, and every envelope cached_report() has
\* returned, is one whose document the target file has held at some earlier
\* moment: refresh() caches after the rename, load_from_disk() caches what
\* read() returned.
C1_CachedWasCommitted ==
    /\ cache.some => ToStringPretty(cache.val) \in committed
    /\ (ret.op = "cached_report" /\ ret.val.some)
           => ToStringPretty(ret.val.val) \in committed

\* a reader was handed the envelope that a refresh() collected and wrote
C1_Witness ==
    /\ ret.op = "cached_report"
    /\ ret.val.some
    /\ ret.val = lastWrite

C3_RefreshAllOrNothing ==
    [][ /\ (cache' # cache) =>
             \/ mainpc = "read"
             \/ restarts' # restarts
             \/ \E t \in Tasks :
                  /\ pc[t] = "cache"
                  /\ cache' = Some(stored[t])
                  /\ result'[t] = Some(Ok(stored[t]))
        /\ \A t \in Tasks :
             (result'[t] # result[t] /\ result'[t].some /\ ~result'[t].val.ok)
                 => cache' = cache ]_vars

\* a refresh() has returned an error while the cache holds the envelope
\* loaded at startup
C3_Witness ==
    /\ \E t \in Tasks : result[t].some /\ ~result[t].val.ok
    /\ cache = Some(OldStored)

\* C4: a call of cached_report(), is_stale(), identity() or
\* redacted_identity() leaves the cache, the identity, both files and the
\* number of collect() invocations as they were; collect() runs inside
\* refresh() only.
C4_AccessorsChangeNothing ==
    [][ /\ (CachedReport \/ IsStale \/ Identity \/ RedactedIdentity)
             => UNCHANGED <<cache, identity, target, tmp, collects>>
        /\ (collects' > collects)
             => \E t \in Tasks : pc[t] = "collect" /\ pc'[t] = "lock" ]_vars

\* a reader asked is_stale() of an empty cache and no collection has run
C4_Witness ==
    /\ ret.op = "is_stale"
    /\ ret.val = Bool(TRUE)
    /\ cache = None
    /\ collects = 0

\* C5: read() returns an envelope only for an existing file that parses and
\* whose checksum is the digest of its report, and that envelope verifies; a
\* parsable file with another checksum gives the checksum error; a missing
\* or unparsable file gives an error.
C5_ReadOnlyVerified ==
    readRes.some =>
        /\ readRes.val.ok =>
             /\ readFile.kind = "doc"
             /\ DocParses(readFile.doc)
             /\ DocVerifies(readFile.doc)
             /\ Verify(readRes.val.val)
             /\ ToStringPretty(readRes.val.val) = readFile.doc
        /\ (readFile.kind = "doc" /\ DocParses(readFile.doc)
              /\ ~DocVerifies(readFile.doc))
             => readRes.val = Err("checksum")
        /\ (readFile.kind # "doc" \/ ~DocParses(readFile.doc))
             => ~readRes.val.ok

\* read() has refused a parsable file whose report was edited
C5_Witness ==
    /\ readFile = Doc(TamperedDoc)
    /\ readRes = Some(Err("checksum"))

\* C6: load_from_disk() populates the cache exactly when the file exists,
\* parses and verifies, with the envelope of that file; otherwise the cache
\* stays as it was, and in both cases startup goes on to serve.
C6_LoadFromDisk ==
    [][ /\ (mainpc = "exists" /\ mainpc' # "exists") =>
             /\ cache' = cache
             /\ (mainpc' = "serving") = (target.kind = "missing")
             /\ (mainpc' = "read") = (target.kind # "missing")
        /\ (mainpc = "read" /\ mainpc' # "read" /\ restarts' = restarts) =>
             /\ mainpc' = "serving"
             /\ IF target.kind = "doc" /\ DocParses(target.doc)
                   /\ DocVerifies(target.doc)
                THEN /\ cache'.some
                     /\ ToStringPretty(cache'.val) = target.doc
                ELSE cache' = cache ]_vars

\* startup found a file whose checksum does not match and serves with an
\* empty cache
C6_Witness ==
    /\ mainpc = "serving"
    /\ target = Doc(TamperedDoc)
    /\ cache = None
    /\ collects = 0
    /\ restarts = 0

\* C7 (as claimed): StoredReport::new(R).verify() is true for every report,
\* and a copy of an envelope whose report differs in a field, with the
\* checksum kept, does not verify.
C7_VerifyExactlyUnmodified ==
    /\ envelope.some => Verify(envelope.val)
    /\ copy.some => ~Verify(copy.val)

\* C8 (as claimed): a read() that follows a completed write(E), with no
\* write in between, returns Ok of an envelope equal to E.
C8_RoundTrip ==
    (readRes.some /\ readAfter.some) => readRes.val = Ok(readAfter.val)

\* C9 (as claimed): is_stale() answers true for an empty cache and otherwise
\* exactly when the age is greater than max_age_secs, for every
\* max_age_secs of the unsigned word.
C9_StaleIffOlderThanMaxAge ==
    [][ IsStale =>
          (ret'.val = Bool(IF cache.some
                           THEN AgeSecs(cache.val, now) > max_age_secs
                           ELSE TRUE)) ]_vars

RECURSIVE MergeRuleAsClaimed(_, _, _)
\* the rule of C10 at the position holding b, o and the result m, and at
\* every position below it
MergeRuleAsClaimed(b, o, m) ==
    IF b.k = "map" /\ o.k = "map"
    THEN /\ m.k = "map"
         /\ DOMAIN m.v = DOMAIN b.v \cup DOMAIN o.v
         /\ \A key \in DOMAIN b.v \ DOMAIN o.v : m.v[key] = b.v[key]
         /\ \A key \in DOMAIN b.v \cap DOMAIN o.v :
                MergeRuleAsClaimed(b.v[key], o.v[key], m.v[key])
    ELSE (o.k \in {"seq", "scalar"} \/ o.k # b.k) => m = o

RECURSIVE MergeRule(_, _, _)
\* the same rule with the null overlay value excepted
MergeRule(b, o, m) ==
    IF b.k = "map" /\ o.k = "map"
    THEN /\ m.k = "map"
         /\ DOMAIN m.v = DOMAIN b.v \cup DOMAIN o.v
         /\ \A key \in DOMAIN b.v \ DOMAIN o.v : m.v[key] = b.v[key]
         /\ \A key \in DOMAIN b.v \cap DOMAIN o.v :
                MergeRule(b.v[key], o.v[key], m.v[key])
    ELSE (o.k # "null" /\ (o.k \in {"seq", "scalar"} \/ o.k # b.k)) => m = o

Child(x, key) ==
    IF x.some /\ x.val.k = "map" /\ key \in DOMAIN x.val.v
    THEN Some(x.val.v[key])
    ELSE None

RECURSIVE NullLeavesUnchanged(_, _, _)
\* at every position where the overlay o holds null, the merged tree m has
\* what the base b had there (b and m are None where they have nothing)
NullLeavesUnchanged(b, o, m) ==
    IF o.k = "null" THEN m = b
    ELSE IF o.k = "map"
    THEN \A key \in DOMAIN o.v :
             NullLeavesUnchanged(Child(b, key), o.v[key], Child(m, key))
    ELSE TRUE

\* C11 (as claimed): at every position where the overlay holds null the
\* merged tree has exactly what the base had there: the base value if it had
\* one, and no key at all if it had none.
C11_NullLeavesUnchanged ==
    merged.some => NullLeavesUnchanged(Some(base), overlay, Some(merged.val))

\* the entries load_with_overlays takes for overlay files
OverlayFileSet == CollectOverlayFiles(overlay_files)

\* the tree load_with_overlays decodes, when the base file reads and parses
MergedTree ==
    ApplyOverlays(base_file.doc, SortPaths(OverlayFileSet), overlay_files)

RECURSIVE SortByFilename(_)
\* the paths in the order of their file names alone
SortByFilename(S) ==
    IF S = {} THEN <<>>
    ELSE LET p == CHOOSE x \in S : \A y \in S \ {x} : x.stem < y.stem
         IN <<p>> \o SortByFilename(S \ {p})

\* C12 (as claimed): the overlay files of all directories are applied in the
\* order of their file names, whatever directory each is in (stated for
\* directories that hold no two files of one name).
C12_FilenameOrder ==
    (/\ loaded.some
     /\ base_file.kind = "doc"
     /\ \A p, q \in OverlayFileSet : p.stem = q.stem => p = q)
        => loaded.val =
               FromValue(ApplyOverlays(base_file.doc,
                                       SortByFilename(OverlayFileSet),
                                       overlay_files))

\* the overlay entries that read and parse
WellFormed(files) ==
    [p \in {q \in DOMAIN files : files[q].file.kind = "doc"} |-> files[p]]

\* C13: load_with_overlays returns what it returns over the same entries
\* with every unreadable or unparsable overlay file removed: such a file
\* neither fails the load nor keeps a later overlay from being applied.
C13_MalformedSkipped ==
    loaded.some =>
        loaded.val = load_with_overlays(base_file, WellFormed(overlay_files))

\* a load went through an unparsable overlay and applied the overlay after it
C13_Witness ==
    /\ loaded.some
    /\ loaded.val.ok
    /\ loaded.val.val.hostname = "hx"
    /\ \E p, q \in OverlayFileSet :
         /\ PathLess(p, q)
         /\ overlay_files[p].file = Garbage
         /\ overlay_files[q].file = Doc(Mapping([hostname |-> Scalar("hx")]))
         /\ \A r \in OverlayFileSet : r = q \/ PathLess(r, q)

\* the tree has the shape of the identity schema
TreeDecodes(tree) ==
    /\ tree.k = "map"
    /\ "hostname" \in DOMAIN tree.v
    /\ tree.v["hostname"].k = "scalar"
    /\ "secrets" \in DOMAIN tree.v =>
         /\ tree.v["secrets"].k = "map"
         /\ "provider" \in DOMAIN tree.v["secrets"].v
                => tree.v["secrets"].v["provider"].k = "scalar"
         /\ "age_keys" \in DOMAIN tree.v["secrets"].v
                => tree.v["secrets"].v["age_keys"].k = "seq"

\* every field of the identity is the tree's, or the default of a field the
\* tree leaves out
TreeDecodesTo(tree, id) ==
    /\ TreeDecodes(tree)
    /\ tree.v["hostname"] = Scalar(id.hostname)
    /\ LET sec == IF "secrets" \in DOMAIN tree.v
                  THEN tree.v["secrets"].v ELSE <<>>
       IN /\ id.secrets.provider =
                 IF "provider" \in DOMAIN sec
                 THEN sec["provider"].v ELSE DefaultProvider
          /\ id.secrets.age_keys =
                 IF "age_keys" \in DOMAIN sec
                 THEN sec["age_keys"].v ELSE <<>>

\* C14: load_with_overlays returns an error when the base file does not read
\* or parse and when the merged tree does not decode; an identity it returns
\* is the decoding of the whole merged tree.
C14_LoadAllOrNothing ==
    loaded.some =>
        /\ base_file.kind # "doc" => ~loaded.val.ok
        /\ (base_file.kind = "doc" /\ ~TreeDecodes(MergedTree))
               => ~loaded.val.ok
        /\ loaded.val.ok =>
               /\ base_file.kind = "doc"
               /\ TreeDecodesTo(MergedTree, loaded.val.val)

\* a load failed at the decoding of the merged tree although the base file
\* alone holds a complete identity
C14_Witness ==
    /\ loaded = Some(Err("decode"))
    /\ base_file.kind = "doc"
    /\ TreeDecodes(base_file.doc)
    /\ OverlayFileSet # {}

\* C15 (as claimed): when an overlay has introduced a field the schema does
\* not have, load_with_overlays returns an error.
C15_UnknownFieldRejected ==
    (/\ loaded.some
     /\ base_file.kind = "doc"
     /\ MergedTree.k = "map"
     /\ "extra" \in DOMAIN MergedTree.v)
        => ~loaded.val.ok

\* C16: reload_identity() either stores the identity just loaded and returns
\* Ok, or returns the load error and leaves the slot as it was; identity()
\* returns the slot.
C16_ReloadAllOrNothing ==
    [][ /\ (loaded' # loaded) =>
             IF loaded'.val.ok
             THEN /\ identity' = Some(loaded'.val.val)
                  /\ ret' = [op |-> "reload_identity", val |-> Ok("unit")]
             ELSE /\ identity' = identity
                  /\ ret' = [op |-> "reload_identity", val |-> loaded'.val]
        /\ (identity' # identity) => (loaded' # loaded /\ loaded'.val.ok)
        /\ Identity => ret'.val = identity ]_vars

\* a reload failed on a missing base file and identity() still returns the
\* identity loaded before
C16_Witness ==
    /\ loaded = Some(Err("read"))
    /\ base_file = Missing
    /\ identity = Some(LoadedIdentity)
    /\ ret = [op |-> "identity", val |-> Some(LoadedIdentity)]

\* the path p is listed, or lies below a listed path
Listed(p, fields) ==
    \E i \in 1..Len(fields) :
        /\ Len(fields[i]) <= Len(p)
        /\ SubSeq(p, 1, Len(fields[i])) = fields[i]

\* the tree of the identity without the listed paths
TreeWithout(id, fields) ==
    LET sec == [key \in {k \in {"provider", "age_keys"} :
                            ~Listed(<<"secrets", k>>, fields)} |->
                   IF key = "provider" THEN Scalar(id.secrets.provider)
                   ELSE Sequence(id.secrets.age_keys)]
    IN Mapping([key \in {k \in {"hostname", "secrets"} :
                            ~Listed(<<k>>, fields)} |->
                   IF key = "hostname" THEN Scalar(id.hostname)
                   ELSE Mapping(sec)])

\* C17 (as claimed): redact returns the identity with every listed path that
\* names a key absent (a field left out reads as its default) and every
\* other field as in the input; a path that does not exist or passes through
\* a scalar or a sequence changes nothing; the call is not an error.
C17_RedactRemovesListed ==
    redacted.some =>
        /\ redacted.val.ok
        /\ TreeDecodesTo(TreeWithout(identity.val, private_fields),
                         redacted.val.val)

\* the two identities are equal in every field that is not listed
SameOutside(a, b, fields) ==
    /\ Listed(<<"hostname">>, fields) \/ a.hostname = b.hostname
    /\ Listed(<<"secrets", "provider">>, fields)
           \/ a.secrets.provider = b.secrets.provider
    /\ Listed(<<"secrets", "age_keys">>, fields)
           \/ a.secrets.age_keys = b.secrets.age_keys

\* what redacted_identity() hands out for an identity
RedactedView(id, fields) ==
    IF Redact(id, fields).ok THEN Some(Redact(id, fields).val) ELSE Some(id)

\* C18 (as claimed): what redacted_identity() returned does not depend on
\* the content of the listed private fields: every identity equal to the
\* loaded one outside the listed paths gives the same returned value.
C18_PrivateFieldsDoNotLeak ==
    (ret.op = "redacted_identity" /\ identity.some) =>
        \A other \in Identities :
            SameOutside(identity.val, other, private_fields)
                => RedactedView(other, private_fields) = ret.val

\* C19 (as claimed): cached_report() returns the cache, nothing when it is
\* empty; a refresh() that succeeds leaves its envelope in the cache and an
\* existing file; a process started afterwards has, after load_from_disk(),
\* the last written envelope in its cache and has not collected.
C19_EndToEnd ==
    [][ /\ CachedReport => ret'.val = cache
        /\ \A t \in Tasks :
             (pc[t] = "cache" /\ pc'[t] = "done") =>
                 /\ cache' = Some(stored[t])
                 /\ result'[t] = Some(Ok(stored[t]))
                 /\ StoreExists(target')
        /\ (/\ mainpc = "read"
            /\ mainpc' = "serving"
            /\ restarts >= 1
            /\ lastWrite.some) =>
                 /\ cache' = lastWrite
                 /\ collects' = 0 ]_vars

\* the call t is between the start of its temp-file write and its rename
InWrite(t) == pc[t] \in {"tmp_open", "tmp_write", "rename"}

\* C20: at most one write() call at a time is between the start of its
\* temp-file write and its rename, and it holds the lock; the temp file a
\* call renames holds that call's envelope; the target holds the complete
\* envelope of the last call that completed its rename.
C20_WritesSerialized ==
    /\ \A t, u \in Tasks : (InWrite(t) /\ InWrite(u)) => t = u
    /\ \A t \in Tasks : InWrite(t) => write_lock = t
    /\ \A t \in Tasks :
           pc[t] = "rename" => tmp = Doc(ToStringPretty(stored[t]))
    /\ lastWrite.some => target = Doc(ToStringPretty(lastWrite.val))

\* one call is about to rename its temp file while the other, having
\* collected a later report, waits for the lock
C20_Witness ==
    /\ pc["initial"] = "rename"
    /\ pc["request"] = "lock"
    /\ write_lock = "initial"
    /\ lastWrite.some
    /\ stored["request"] # stored["initial"]

(* ----------------- the two slots under concurrent calls ---------------- *)
\* the identity files while the slots are exercised: node.yaml complete or
\* absent, and at most one overlay that renames the host
SlotOverlayPath == [dir |-> 1, stem |-> 0]
SlotOverlays ==
    {<<>>,
     [p \in {SlotOverlayPath} |->
        [ext |-> "yaml", file |-> Doc(Mapping([hostname |-> Scalar("hy")]))]]}
SlotBaseFiles ==
    {Missing,
     Doc(Mapping([hostname |-> Scalar("h1"),
                  secrets |-> Mapping([provider |-> Scalar("sops"),
                                       age_keys |-> Sequence(<<"k1">>)])]))}

\* the process right after NodeService::new, with identity files that may
\* have changed since
InitSlots ==
    /\ NoCollect
    /\ NoPower
    /\ Constructed
    /\ target \in {Missing, Garbage, Doc(ValidDoc)}
    /\ tmp = Missing
    /\ identity \in {None, Some(LoadedIdentity)}
    /\ now = StartTime
    /\ max_age_secs = ConfiguredMaxAge
    /\ private_fields = ConfiguredPrivateFields
    /\ restarts = 0
    /\ ret = NoRet
    /\ readFile = Missing
    /\ readRes = None
    /\ readAfter = None
    /\ lastWrite = None
    /\ committed = IF target.kind = "doc" THEN {target.doc} ELSE {}
    /\ NoMerge
    /\ NoWrap
    /\ base_file \in SlotBaseFiles
    /\ overlay_files \in SlotOverlays
    /\ loaded = None
    /\ NoRedact

\* load_from_disk, the refresh() calls, reload_identity() and the two
\* accessors that hand out a slot's content, in any interleaving
NextSlots ==
    \/ LoadFromDiskExists
    \/ LoadFromDiskRead
    \/ \E t \in Tasks : RefreshCall(t)
    \/ \E t \in Tasks : RefreshCollect(t)
    \/ \E t \in Tasks : WriteLock(t)
    \/ \E t \in Tasks : WriteTmpOpen(t)
    \/ \E t \in Tasks : WriteTmpWriteAll(t)
    \/ \E t \in Tasks : WriteRename(t)
    \/ \E t \in Tasks : RefreshCache(t)
    \/ ReloadIdentity
    \/ CachedReport
    \/ Identity

SpecSlots == InitSlots /\ [][NextSlots]_vars

\* the envelopes a step can put into the cache slot: the local `stored` of
\* a refresh() call, or what ReportStore::read returned
EnvelopesAtHand ==
    {stored[t] : t \in Tasks}
    \cup (IF StoreRead(target).ok THEN {StoreRead(target).val} ELSE {})

\* C21: every value cached_report() or identity() returns is the whole
\* content of the slot at the call, the call leaves the slot alone, the slot
\* only ever takes one whole value (an envelope a refresh() built or read()
\* returned, which therefore verifies; the identity a load returned), and a
\* replacement of the cache leaves the value already handed out as it was.
C21_ReadersSeeWholeValues ==
    [][ /\ (ret' # ret /\ ret'.op = "cached_report")
            => (ret'.val = cache /\ cache' = cache)
        /\ (ret' # ret /\ ret'.op = "identity")
            => (ret'.val = identity /\ identity' = identity)
        /\ cache' # cache
            => /\ cache'.some
               /\ cache'.val \in EnvelopesAtHand
               /\ Verify(cache'.val)
               /\ ret' = ret
        /\ identity' # identity
            => /\ loaded'.some /\ loaded'.val.ok
               /\ identity' = Some(loaded'.val.val) ]_vars

\* a reader holds the envelope of one refresh() while the slot has moved on
\* to the envelope of another
C21_Witness ==
    /\ ret.op = "cached_report"
    /\ ret.val.some
    /\ cache.some
    /\ cache # ret.val
    /\ \A t \in Tasks : pc[t] = "done"

(* ---------------------- ReportCollector::collect ----------------------- *)
\* the probes tokio::join! runs together, and the one awaited after them
JoinedSections ==
    {"hardware", "os", "network", "nix", "health", "security", "processes"}
AllSections == JoinedSections \cup {"kubernetes"}

\* default_hardware(), default_os(), ...: the explicit default of a section
DefaultSection(s) == [section |-> s, value |-> "default"]

\* what a probe can return: a snapshot, the snapshot that happens to equal
\* the default, or an error
ProbeOutcomes(s) ==
    {Ok([section |-> s, value |-> "probed"]), Ok(DefaultSection(s)),
     Err("probe")}

\* collect() has been called and no probe has returned yet
InitCollect ==
    /\ probes = [s \in AllSections |-> None]
    /\ collected = None
    /\ NoPower
    /\ Constructed
    /\ target = Missing
    /\ tmp = Missing
    /\ identity = None
    /\ now = StartTime
    /\ max_age_secs = ConfiguredMaxAge
    /\ private_fields = ConfiguredPrivateFields
    /\ restarts = 0
    /\ ret = NoRet
    /\ readFile = Missing
    /\ readRes = None
    /\ readAfter = None
    /\ lastWrite = None
    /\ committed = {}
    /\ NoMerge
    /\ NoWrap
    /\ NoLoad
    /\ NoRedact

\* one future of the tokio::join! completes, whatever the others did
ProbeJoined(s) ==
    /\ s \in JoinedSections
    /\ probes[s] = None
    /\ \E o \in ProbeOutcomes(s) : probes' = [probes EXCEPT ![s] = Some(o)]
    /\ UNCHANGED <<storeVars, slotVars, mainpc, taskVars, envVars, collects,
                   ret, readVars, histVars, mergeVars, wrapVars, loadVars,
                   redactVars, collected, powerVars>>

\* `Self::collect_kubernetes().await`, after the join has returned
ProbeKubernetes ==
    /\ \A s \in JoinedSections : probes[s].some
    /\ probes["kubernetes"] = None
    /\ \E o \in ProbeOutcomes("kubernetes") :
         probes' = [probes EXCEPT !["kubernetes"] = Some(o)]
    /\ UNCHANGED <<storeVars, slotVars, mainpc, taskVars, envVars, collects,
                   ret, readVars, histVars, mergeVars, wrapVars, loadVars,
                   redactVars, collected, powerVars>>

\* the report collect() builds: `unwrap_or_else(.. default_x())` for each
\* joined section, `.ok()` for kubernetes
BuildReport(p) ==
    [s \in AllSections |->
        IF s = "kubernetes"
        THEN (IF p[s].val.ok THEN Some(p[s].val.val) ELSE None)
        ELSE (IF p[s].val.ok THEN p[s].val.val ELSE DefaultSection(s))]

\* collect() giving up with the first probe error it meets
CollectReturn_FailFast ==
    /\ \A s \in AllSections : probes[s].some
    /\ collected = None
    /\ collected' = IF \E s \in AllSections : ~probes[s].val.ok
                    THEN Some(Err("probe"))
                    ELSE Some(Ok(BuildReport(probes)))
    /\ UNCHANGED <<storeVars, slotVars, mainpc, taskVars, envVars, collects,
                   ret, readVars, histVars, mergeVars, wrapVars, loadVars,
                   redactVars, probes, powerVars>>

\* `Ok(NodeReport { .. })`
CollectReturn ==
    /\ \A s \in AllSections : probes[s].some
    /\ collected = None
    /\ collected' = Some(Ok(BuildReport(probes)))
    /\ UNCHANGED <<storeVars, slotVars, mainpc, taskVars, envVars, collects,
                   ret, readVars, histVars, mergeVars, wrapVars, loadVars,
                   redactVars, probes, powerVars>>

NextCollect ==
    \/ \E s \in JoinedSections : ProbeJoined(s)
    \/ ProbeKubernetes
    \/ CollectReturn

SpecCollect == InitCollect /\ [][NextCollect]_vars

\* C22: collect() returns Ok whichever probes failed; in the report a failed
\* section holds its default (kubernetes: None), a section whose probe
\* succeeded holds the probe's result, every probe has run, and with every
\* probe failed the report is the all-default one.
C22_CollectNeverFails ==
    collected.some =>
        /\ collected.val.ok
        /\ \A s \in AllSections : probes[s].some
        /\ \A s \in JoinedSections :
             collected.val.val[s] =
                 IF probes[s].val.ok THEN probes[s].val.val
                 ELSE DefaultSection(s)
        /\ collected.val.val["kubernetes"] =
               IF probes["kubernetes"].val.ok
               THEN Some(probes["kubernetes"].val.val) ELSE None
        /\ (\A s \in AllSections : ~probes[s].val.ok)
               => collected.val.val =
                      [s \in AllSections |->
                          IF s = "kubernetes" THEN None
                          ELSE DefaultSection(s)]

\* collect() has returned after the health probe failed and the hardware
\* probe succeeded
C22_Witness ==
    /\ collected.some
    /\ ~probes["health"].val.ok
    /\ probes["hardware"].val = Ok([section |-> "hardware",
                                    value |-> "probed"])
    /\ collected.val.ok
    /\ collected.val.val["health"] = DefaultSection("health")
    /\ collected.val.val["hardware"].value = "probed"

\* C23: within one daemon process a populated slot is never emptied: no
\* step, a failed refresh() and a failed reload_identity() included, takes
\* the cache or the identity slot from Some to None, and cached_report()
\* returns None only while the cache is empty.
C23_PopulatedStaysPopulated ==
    [][ /\ cache.some => cache'.some
        /\ identity.some => identity'.some
        /\ (ret' # ret /\ ret'.op = "cached_report" /\ ~ret'.val.some)
            => ~cache.some ]_vars

\* a refresh() has failed and a reload has failed while both slots were
\* populated, and both still are
C23_Witness ==
    /\ cache.some
    /\ identity.some
    /\ \E t \in Tasks : result[t].some /\ ~result[t].val.ok
    /\ \E t \in Tasks : result[t].some /\ result[t].val.ok
    /\ loaded.some /\ ~loaded.val.ok

\* C24: a refresh() that is about to replace the cache no longer holds the
\* store's write lock, and the replacement puts that call's own envelope
\* into the cache whatever the file holds by then; so the cache follows the
\* order of the replacements, not the order of the file writes.
C24_CacheFollowsCompletionOrder ==
    [][ \A t \in Tasks :
          /\ pc'[t] = "cache" => write_lock' # t
          /\ (pc[t] = "cache" /\ pc'[t] = "done")
                => cache' = Some(stored[t]) ]_vars

\* both refresh() calls have returned Ok; "initial" wrote the file first
\* and replaced the cache last: the file holds the envelope of "request",
\* the cache the one of "initial"
C24_Witness ==
    /\ \A t \in Tasks : pc[t] = "done" /\ result[t].some /\ result[t].val.ok
    /\ stored["initial"] # stored["request"]
    /\ target = Doc(ToStringPretty(stored["request"]))
    /\ target # Doc(ToStringPretty(stored["initial"]))
    /\ lastWrite = Some(stored["request"])
    /\ cache = Some(stored["initial"])
    /\ ret = [op |-> "cached_report", val |-> Some(stored["initial"])]

\* what load_from_disk left in the cache: the envelope read() returned, or
\* nothing
LoadedFromDisk ==
    IF readRes.some /\ readRes.val.ok THEN Some(readRes.val.val) ELSE None

\* C25: a refresh() starts only after load_from_disk has completed; while
\* the daemon serves, cached_report() can always complete, a refresh() that
\* is collecting or writing included; the cache changes only in
\* load_from_disk and in the replacement step of a refresh(), so a
\* cached_report() during a refresh() returns the value from before it:
\* until a refresh() has replaced the cache, what load_from_disk left.
C25_RefreshNeverBlocksReads ==
    /\ [](\A t \in Tasks : pc[t] # "idle" => mainpc = "serving")
    /\ [](mainpc = "serving" => ENABLED CachedReport)
    /\ [][ /\ cache' # cache
               => \/ mainpc = "read"
                  \/ \E t \in Tasks : pc[t] = "cache" /\ pc'[t] = "done"
           /\ (ret' # ret /\ ret'.op = "cached_report")
               => /\ ret'.val = cache
                  /\ (\A t \in Tasks : pc[t] # "done" \/ ~result[t].val.ok)
                        => ret'.val = LoadedFromDisk ]_vars

\* cached_report() has returned the envelope load_from_disk cached while a
\* refresh() holds the store's lock with its temp file half written
C25_Witness ==
    /\ \E t \in Tasks : pc[t] = "tmp_write" /\ write_lock = t
    /\ \A t \in Tasks : pc[t] # "done"
    /\ ret = [op |-> "cached_report", val |-> Some(OldStored)]
    /\ cache = Some(OldStored)

(* ------------------- the periodic refresh scheduler -------------------- *)
\* most collect() calls of one run of the scheduler specification
MaxRounds == 3

\* the loop spawned when refresh_interval_secs > 0, and one explicit
\* refresh request
PeriodicTasks == {"periodic", "request"}

\* the daemon is serving with an empty cache; the loop is at its first
\* `interval.tick().await`
InitPeriodic ==
    /\ NoCollect
    /\ NoPower
    /\ write_lock = "free"
    /\ cache = None
    /\ mainpc = "serving"
    /\ pc = [t \in PeriodicTasks |-> "idle"]
    /\ stored = [t \in PeriodicTasks |-> NoStored]
    /\ result = [t \in PeriodicTasks |-> None]
    /\ collects = 0
    /\ target = Missing
    /\ tmp = Missing
    /\ identity = None
    /\ now = StartTime
    /\ max_age_secs = ConfiguredMaxAge
    /\ private_fields = ConfiguredPrivateFields
    /\ restarts = 0
    /\ ret = NoRet
    /\ readFile = Missing
    /\ readRes = None
    /\ readAfter = None
    /\ lastWrite = None
    /\ committed = {}
    /\ NoMerge
    /\ NoWrap
    /\ NoLoad
    /\ NoRedact

\* the loop ending with the first refresh() error
PeriodicLoop_StopsOnError ==
    /\ pc["periodic"] = "done"
    /\ result["periodic"].val.ok
    /\ collects < MaxRounds
    /\ pc' = [pc EXCEPT !["periodic"] = "idle"]
    /\ UNCHANGED <<storeVars, slotVars, mainpc, stored, result, envVars,
                   collects, ret, readVars, histVars, pureVars>>

\* `match report_node.refresh().await { Ok(..) => info!, Err(e) => warn! }`
\* and back to `interval.tick().await`: both arms only log.
PeriodicLoop ==
    /\ pc["periodic"] = "done"
    /\ collects < MaxRounds
    /\ pc' = [pc EXCEPT !["periodic"] = "idle"]
    /\ UNCHANGED <<storeVars, slotVars, mainpc, stored, result, envVars,
                   collects, ret, readVars, histVars, pureVars>>

\* a step of the refresh() call of `t` once it has been entered
RefreshStep(t) ==
    \/ RefreshCollect(t)
    \/ WriteLock(t)
    \/ WriteTmpOpen(t)
    \/ WriteTmpWriteAll(t)
    \/ WriteRename(t)
    \/ RefreshCache(t)

NextPeriodic ==
    \/ PeriodicLoop
    \/ \E t \in PeriodicTasks : RefreshCall(t)
    \/ \E t \in PeriodicTasks : RefreshStep(t)

\* the runtime keeps polling a spawned task and a request in flight, and
\* the interval keeps ticking: the loop and every entered refresh() go on.
SpecPeriodic ==
    /\ InitPeriodic
    /\ [][NextPeriodic]_vars
    /\ WF_vars(PeriodicLoop)
    /\ WF_vars(RefreshCall("periodic"))
    /\ \A t \in PeriodicTasks : WF_vars(RefreshStep(t))

\* the last refresh() of `t` returned an error
RefreshFailed(t) == pc[t] = "done" /\ ~result[t].val.ok

\* the run has a round left for the loop, whether or not the explicit
\* request still collects
RoundLeft ==
    collects + (IF pc["request"] \in {"idle", "collect"} THEN 1 ELSE 0)
        < MaxRounds

\* C26: after a failed refresh() the periodic loop calls refresh() again
\* (while the run has rounds left); every refresh() the loop calls returns,
\* and when it returns Ok the cache holds its envelope; the loop starts a
\* refresh() only after its previous one has returned; the refresh() of an
\* explicit request ends with its result and is not called again.
C26_FailedRefreshIsRetried ==
    /\ (RefreshFailed("periodic") /\ RoundLeft)
           ~> (pc["periodic"] = "collect")
    /\ (pc["periodic"] = "collect")
           ~> (/\ pc["periodic"] = "done"
               /\ result["periodic"].val.ok
                     => cache = Some(result["periodic"].val.val))
    /\ [][ /\ pc'["periodic"] = "idle" => pc["periodic"] \in {"idle", "done"}
           /\ pc["request"] = "done"
                 => /\ pc'["request"] = "done"
                    /\ result'["request"] = result["request"] ]_vars

\* the loop's refresh() failed and the loop has called refresh() again,
\* while the explicit request ended with the error it returned
C26_Witness ==
    /\ pc["periodic"] = "collect"
    /\ result["periodic"].some
    /\ ~result["periodic"].val.ok
    /\ RefreshFailed("request")
    /\ cache = None

(* ------------- overlays of every top-level kind of value --------------- *)
\* what a parsable overlay file can hold at its top level: a mapping, null
\* (an empty file), a sequence, a scalar
TopLevelTrees ==
    {Mapping([hostname |-> Scalar("hy")]),
     Mapping([extra |-> Scalar("x")]),
     Null,
     Sequence(<<"a">>),
     Scalar("s")}
TopLevelEntries == {[ext |-> "yaml", file |-> Doc(t)] : t \in TopLevelTrees}
TopLevelPaths ==
    {[dir |-> 1, stem |-> 0], [dir |-> 1, stem |-> 1], [dir |-> 2, stem |-> 0]}

\* the daemon serves; node.yaml parses and every overlay file parses
InitKinds ==
    /\ NoCollect
    /\ NoPower
    /\ write_lock = "free"
    /\ cache = None
    /\ mainpc = "serving"
    /\ pc = [t \in Tasks |-> "idle"]
    /\ stored = [t \in Tasks |-> NoStored]
    /\ result = [t \in Tasks |-> None]
    /\ collects = 0
    /\ target = Missing
    /\ tmp = Missing
    /\ identity \in {None, Some(LoadedIdentity)}
    /\ now = StartTime
    /\ max_age_secs = ConfiguredMaxAge
    /\ private_fields = ConfiguredPrivateFields
    /\ restarts = 0
    /\ ret = NoRet
    /\ readFile = Missing
    /\ readRes = None
    /\ readAfter = None
    /\ lastWrite = None
    /\ committed = {}
    /\ NoMerge
    /\ NoWrap
    /\ base_file \in {Doc(t) : t \in BaseTrees}
    /\ \E D \in SUBSET TopLevelPaths :
         overlay_files \in [D -> TopLevelEntries]
    /\ loaded = None
    /\ NoRedact

NextKinds == ReloadIdentity \/ Identity

SpecKinds == InitKinds /\ [][NextKinds]_vars

\* some overlay file that is applied holds a mapping with this top-level key
OverlayMentions(key) ==
    \E p \in OverlayFileSet :
        /\ overlay_files[p].file.kind = "doc"
        /\ overlay_files[p].file.doc.k = "map"
        /\ key \in DOMAIN overlay_files[p].file.doc.v

\* C27: after a load over a base mapping and parsable overlay files of any
\* top-level kind, every top-level key of the base that no overlay mentions
\* is in the tree that is decoded, with the value the base gave it.
C27_BaseNeverDiscarded ==
    (loaded.some /\ base_file.doc.k = "map") =>
        \A key \in DOMAIN base_file.doc.v :
            ~OverlayMentions(key) =>
                /\ MergedTree.k = "map"
                /\ key \in DOMAIN MergedTree.v
                /\ MergedTree.v[key] = base_file.doc.v[key]

(* ------------------- `kindling report` as a writer --------------------- *)
\* one refresh() of the daemon and one `kindling report --fresh` process.
\* The temp path is known by its content: after a write_all it holds the
\* document of the writer that wrote last.
CliTasks == {"request", "cli"}

\* the daemon serves; the command has been started and has loaded its
\* configuration
InitCli ==
    /\ NoCollect
    /\ NoPower
    /\ write_lock = "free"
    /\ cache = None
    /\ mainpc = "serving"
    /\ pc = [t \in CliTasks |-> "idle"]
    /\ stored = [t \in CliTasks |-> NoStored]
    /\ result = [t \in CliTasks |-> None]
    /\ collects = 0
    /\ target \in {Missing, Doc(ValidDoc)}
    /\ tmp = Missing
    /\ identity = None
    /\ now = StartTime
    /\ max_age_secs = ConfiguredMaxAge
    /\ private_fields = ConfiguredPrivateFields
    /\ restarts = 0
    /\ ret = NoRet
    /\ readFile = Missing
    /\ readRes = None
    /\ readAfter = None
    /\ lastWrite = None
    /\ committed = IF target.kind = "doc" THEN {target.doc} ELSE {}
    /\ NoMerge
    /\ NoWrap
    /\ NoLoad
    /\ NoRedact

\* an error return of store.write() in the command: `?` ends run_async
CliFailed(e) ==
    /\ pc' = [pc EXCEPT !["cli"] = "done"]
    /\ result' = [result EXCEPT !["cli"] = Some(Err(e))]
    /\ UNCHANGED <<storeVars, slotVars, mainpc, stored, envVars, collects,
                   ret, readVars, histVars, pureVars>>

\* `ReportStore::new(..)`, `ReportCollector::collect().await?`,
\* `StoredReport::new(report)` and the first lines of store.write(): the
\* lock taken is the Mutex of the command's own ReportStore, which nobody
\* else holds.
CliCollect ==
    /\ pc["cli"] = "idle"
    /\ \E load \in ProbeLoads :
         stored' = [stored EXCEPT !["cli"] =
             StoredReportNew([timestamp |-> now, hostname |-> Hostname,
                              load |-> load], now)]
    /\ pc' = [pc EXCEPT !["cli"] = "tmp_open"]
    /\ UNCHANGED <<storeVars, slotVars, mainpc, result, envVars, collects,
                   ret, readVars, histVars, pureVars>>

\* `tokio::fs::write(&tmp_path, &content)` in the command, first half
CliTmpOpen ==
    /\ pc["cli"] = "tmp_open"
    /\ \/ /\ tmp' = Garbage
          /\ pc' = [pc EXCEPT !["cli"] = "tmp_write"]
          /\ UNCHANGED <<target, write_lock, slotVars, mainpc, stored,
                         result, envVars, collects, ret, readVars,
                         histVars, pureVars>>
       \/ CliFailed("tmp")

\* `tokio::fs::write(&tmp_path, &content)` in the command, second half
CliTmpWriteAll ==
    /\ pc["cli"] = "tmp_write"
    /\ \/ /\ tmp' = Doc(ToStringPretty(stored["cli"]))
          /\ pc' = [pc EXCEPT !["cli"] = "rename"]
          /\ UNCHANGED <<target, write_lock, slotVars, mainpc, stored,
                         result, envVars, collects, ret, readVars,
                         histVars, pureVars>>
       \/ CliFailed("tmp")

\* `tokio::fs::rename(&tmp_path, &self.path).await?` in the command: it
\* renames whatever the temp path holds by now, and fails when the path is
\* gone.
CliRename ==
    /\ pc["cli"] = "rename"
    /\ \/ /\ tmp.kind # "missing"
          /\ target' = tmp
          /\ tmp' = Missing
          /\ lastWrite' = Some(stored["cli"])
          /\ committed' = IF tmp.kind = "doc"
                          THEN committed \cup {tmp.doc} ELSE committed
          /\ pc' = [pc EXCEPT !["cli"] = "done"]
          /\ result' = [result EXCEPT !["cli"] = Some(Ok(stored["cli"]))]
          /\ UNCHANGED <<write_lock, slotVars, mainpc, stored, envVars,
                         collects, ret, readVars, pureVars>>
       \/ CliFailed("rename")

NextCli ==
    \/ RefreshCall("request")
    \/ RefreshStep("request")
    \/ CliCollect
    \/ CliTmpOpen
    \/ CliTmpWriteAll
    \/ CliRename

SpecCli == InitCli /\ [][NextCli]_vars

\* C28: of all writers of the target path, the daemon and the `report`
\* command included, at most one at a time is between the start of its
\* temp-file write and its rename, so the shared temp file is never written
\* by two writers at once.
C28_EveryWriterExcluded ==
    \A t, u \in CliTasks : (InWrite(t) /\ InWrite(u)) => t = u

(* --------------------- write() and a loss of power --------------------- *)
\* the one refresh() call of this specification
PowerTasks == {"request"}
\* the two paths of the store
StoreFiles == {"tmp", "target"}

\* the daemon starts on what an earlier run left, all of it on durable
\* storage
InitPower ==
    /\ NoCollect
    /\ synced = StoreFiles
    /\ write_lock = "free"
    /\ cache = None
    /\ mainpc = "exists"
    /\ pc = [t \in PowerTasks |-> "idle"]
    /\ stored = [t \in PowerTasks |-> NoStored]
    /\ result = [t \in PowerTasks |-> None]
    /\ collects = 0
    /\ target \in {Missing, Doc(ValidDoc)}
    /\ tmp = Missing
    /\ identity = None
    /\ now = StartTime
    /\ max_age_secs = ConfiguredMaxAge
    /\ private_fields = ConfiguredPrivateFields
    /\ restarts = 0
    /\ ret = NoRet
    /\ readFile = Missing
    /\ readRes = None
    /\ readAfter = None
    /\ lastWrite = None
    /\ committed = IF target.kind = "doc" THEN {target.doc} ELSE {}
    /\ NoMerge
    /\ NoWrap
    /\ NoLoad
    /\ NoRedact

\* `tokio::fs::write(&tmp_path, &content)`, first half: the truncated file
\* is in the page cache only.
PowerTmpOpen(t) ==
    /\ pc[t] = "tmp_open"
    /\ \/ /\ tmp' = Garbage
          /\ synced' = synced \ {"tmp"}
          /\ pc' = [pc EXCEPT ![t] = "tmp_write"]
          /\ UNCHANGED <<target, write_lock, slotVars, mainpc, stored, result,
                         envVars, collects, ret, readVars, histVars, mergeVars,
                         wrapVars, loadVars, redactVars, collectVars>>
       \/ WriteFailed(t, "tmp")

\* `tokio::fs::write(&tmp_path, &content)`, second half: write_all returns
\* once the bytes are in the page cache; the file is closed without
\* sync_all.
PowerTmpWriteAll(t) ==
    /\ pc[t] = "tmp_write"
    /\ \/ /\ tmp' = Doc(ToStringPretty(stored[t]))
          /\ synced' = synced \ {"tmp"}
          /\ pc' = [pc EXCEPT ![t] = "rename"]
          /\ UNCHANGED <<target, write_lock, slotVars, mainpc, stored, result,
                         envVars, collects, ret, readVars, histVars, mergeVars,
                         wrapVars, loadVars, redactVars, collectVars>>
       \/ WriteFailed(t, "tmp")

\* `tokio::fs::rename(&tmp_path, &self.path).await?`: the target takes the
\* temp file's content, flushed or not.
PowerRename(t) ==
    /\ pc[t] = "rename"
    /\ \/ /\ tmp.kind # "missing"
          /\ target' = tmp
          /\ tmp' = Missing
          /\ synced' = IF "tmp" \in synced THEN StoreFiles ELSE {"tmp"}
          /\ write_lock' = "free"
          /\ lastWrite' = Some(stored[t])
          /\ committed' = IF tmp.kind = "doc"
                          THEN committed \cup {tmp.doc} ELSE committed
          /\ pc' = [pc EXCEPT ![t] = "cache"]
          /\ UNCHANGED <<slotVars, mainpc, stored, result, envVars, collects,
                         ret, readVars, mergeVars, wrapVars, loadVars,
                         redactVars, collectVars>>
       \/ WriteFailed(t, "rename")

\* the kernel writes the dirty pages of a file back at a time of its own
Writeback(f) ==
    /\ f \in StoreFiles \ synced
    /\ synced' = synced \cup {f}
    /\ UNCHANGED <<storeVars, slotVars, mainpc, taskVars, envVars, collects,
                   ret, readVars, histVars, mergeVars, wrapVars, loadVars,
                   redactVars, collectVars>>

\* what a file holds after a loss of power: its content when that was on
\* durable storage; otherwise its content or a torn or empty file
AfterPowerLoss(f, content) ==
    IF f \in synced \/ content.kind = "missing" THEN {content}
    ELSE {content, Garbage}

\* the machine loses power and the daemon starts again: memory is lost as
\* in a crash, and the files hold what had reached durable storage.
PowerLoss ==
    /\ restarts < MaxRestarts
    /\ restarts' = restarts + 1
    /\ target' \in AfterPowerLoss("target", target)
    /\ tmp' \in AfterPowerLoss("tmp", tmp)
    /\ synced' = StoreFiles
    /\ write_lock' = "free"
    /\ cache' = None
    /\ mainpc' = "exists"
    /\ pc' = [t \in PowerTasks |-> "idle"]
    /\ stored' = [t \in PowerTasks |-> NoStored]
    /\ result' = [t \in PowerTasks |-> None]
    /\ collects' = 0
    /\ UNCHANGED <<identity, now, max_age_secs, private_fields, ret,
                   readVars, histVars, mergeVars, wrapVars, loadVars,
                   redactVars, collectVars>>

NextPower ==
    \/ LoadFromDiskExists
    \/ LoadFromDiskRead
    \/ \E t \in PowerTasks : RefreshCall(t)
    \/ \E t \in PowerTasks : RefreshCollect(t)
    \/ \E t \in PowerTasks : WriteLock(t)
    \/ \E t \in PowerTasks : PowerTmpOpen(t)
    \/ \E t \in PowerTasks : PowerTmpWriteAll(t)
    \/ \E t \in PowerTasks : PowerRename(t)
    \/ \E t \in PowerTasks : RefreshCache(t)
    \/ \E f \in StoreFiles : Writeback(f)
    \/ PowerLoss

SpecPower == InitPower /\ [][NextPower]_vars

\* C29: write() renames the temp file onto the target only when the temp
\* file's complete content has been flushed to durable storage, after
\* having taken the lock and written the temp file.
C29_FlushBeforeRename ==
    [][ \A t \in PowerTasks :
          (pc[t] = "rename" /\ pc'[t] = "cache")
              => /\ write_lock = t
                 /\ tmp = Doc(ToStringPretty(stored[t]))
                 /\ "tmp" \in synced ]_vars

(* -------------------------- NodeService::new --------------------------- *)
\* NodeIdentity::load(path): the base file decoded on its own
NodeIdentityLoad(bfile) ==
    IF bfile.kind \in {"missing", "unreadable"} THEN Err("read")
    ELSE IF bfile.kind = "garbage" THEN Err("parse")
    ELSE FromValue(bfile.doc)

\* `Result::ok`
ResultOk(r) == IF r.ok THEN Some(r.val) ELSE None

\* server::run is about to construct the NodeService
InitNew ==
    /\ NoCollect
    /\ NoPower
    /\ write_lock = "free"
    /\ cache = None
    /\ mainpc = "new"
    /\ pc = [t \in Tasks |-> "idle"]
    /\ stored = [t \in Tasks |-> NoStored]
    /\ result = [t \in Tasks |-> None]
    /\ collects = 0
    /\ target = Missing
    /\ tmp = Missing
    /\ identity = None
    /\ now = StartTime
    /\ max_age_secs = ConfiguredMaxAge
    /\ private_fields = ConfiguredPrivateFields
    /\ restarts = 0
    /\ ret = NoRet
    /\ readFile = Missing
    /\ readRes = None
    /\ readAfter = None
    /\ lastWrite = None
    /\ committed = {}
    /\ NoMerge
    /\ NoWrap
    /\ base_file \in BaseFiles
    /\ \E D \in SUBSET OverlayPaths :
         /\ Cardinality(D) <= MaxOverlays
         /\ overlay_files \in [D -> OverlayEntries]
    /\ loaded = None
    /\ NoRedact

\* NodeService::new leaving the slot empty when the load with overlays
\* fails
NodeServiceNew_NoFallback ==
    /\ mainpc = "new"
    /\ identity' = IF base_file.kind = "missing" THEN None
                   ELSE ResultOk(load_with_overlays(base_file, overlay_files))
    /\ mainpc' = "exists"
    /\ UNCHANGED <<storeVars, cache, taskVars, envVars, collects, ret,
                   readVars, histVars, pureVars>>

\* NodeService::new: `if base_path.exists()`, the load with overlays, and
\* on its error `NodeIdentity::load(&base_path).ok()`
NodeServiceNew ==
    /\ mainpc = "new"
    /\ identity' =
         IF base_file.kind = "missing" THEN None
         ELSE LET r == load_with_overlays(base_file, overlay_files)
              IN IF r.ok THEN Some(r.val)
                 ELSE ResultOk(NodeIdentityLoad(base_file))
    /\ mainpc' = "exists"
    /\ UNCHANGED <<storeVars, cache, taskVars, envVars, collects, ret,
                   readVars, histVars, pureVars>>

NextNew ==
    \/ NodeServiceNew
    \/ LoadFromDiskExists
    \/ ReloadIdentity
    \/ Identity

SpecNew == InitNew /\ [][NextNew]_vars

\* C30: once constructed, and until a reload succeeds, the identity slot is
\* empty when node.yaml does not exist, holds the merged identity when the
\* load with overlays succeeds, and otherwise holds the base file decoded
\* alone if that decodes and nothing if not; a reload_identity() whose load
\* fails returns that error and leaves the slot as it was.
C30_ConstructionFallsBackToBase ==
    /\ []((mainpc # "new" /\ (loaded.some => ~loaded.val.ok)) =>
            identity =
              IF base_file.kind = "missing" THEN None
              ELSE IF load_with_overlays(base_file, overlay_files).ok
              THEN Some(load_with_overlays(base_file, overlay_files).val)
              ELSE IF base_file.kind = "doc" /\ TreeDecodes(base_file.doc)
              THEN Some(FromValue(base_file.doc).val)
              ELSE None)
    /\ [][ (loaded' # loaded /\ ~loaded'.val.ok)
              => /\ ret' = [op |-> "reload_identity", val |-> loaded'.val]
                 /\ identity' = identity ]_vars

\* an overlay makes the merged tree undecodable: the service was built with
\* the base identity alone, and a reload has returned the decode error and
\* left that identity in the slot
C30_Witness ==
    /\ base_file.kind = "doc"
    /\ TreeDecodes(base_file.doc)
    /\ ~load_with_overlays(base_file, overlay_files).ok
    /\ identity = Some(FromValue(base_file.doc).val)
    /\ loaded = Some(Err("decode"))
    /\ ret = [op |-> "reload_identity", val |-> Err("decode")]

====
